---------------------------- MODULE Spec2Model ----------------------------
(* State-machine model of src/helper.py: the symbol lookup and location   *)
(* merge (lookup_symbol, symbol_at_point), the upward comment scan        *)
(* (extractInfo) and the doc formatter (miseEnForme, htmlList, htmlText). *)
(*                                                                        *)
(* Text is modelled as sequences of one-character strings, so substring   *)
(* search, slicing, stripping and lower-casing are computed.  String      *)
(* literals the code emits as markup are single tokens of the output.     *)
(* Python's 0-based index k of a sequence is element k+1 here.            *)
EXTENDS Integers, Sequences, FiniteSets, TLC

VARIABLES
    \* lookup_symbol / symbol_at_point / GotoDefinition.run
    pc,                   \* position of the running handler
    symbol,               \* the symbol looked up last / returned
    index_locations,      \* what lookup_symbol_in_index returned last
    open_file_locations,  \* what lookup_symbol_in_open_files returned last
    locations,            \* the location list of the running handler
    calls,                \* host searches invoked by the running handler
    lookups,              \* lookup_symbol invocations of the running handler
    \* on_hover / extractInfo
    files,                \* host: path -> the open file and its lines, or NoFile
    view,                 \* extractInfo's view: a path, or NoView (None)
    loc,                  \* extractInfo's loop variable l
    k,                    \* position of "for l in locations"
    i,                    \* extractInfo's line offset i
    htmlTab,              \* extractInfo's collected lines
    comment,              \* on_hover's comment (the rendered doc block)
    fault,                \* exception that ended the handler, or "none"
    \* miseEnForme
    textTab,              \* the lines to format
    n,                    \* position of "for ligne in textTab"
    fmt,                  \* inputParam, outputParam, description, other, last
    html                  \* the rendered markup

lookupVars ==
    <<pc, symbol, index_locations, open_file_locations, locations, calls, lookups>>
hoverVars == <<files, view, loc, k, i, htmlTab, comment, fault>>
formatVars == <<textTab, n, fmt, html>>
vars == <<lookupVars, hoverVars, formatVars>>

-----------------------------------------------------------------------------
(* Bounds *)

MaxLen == 2        \* longest list a host search returns (merge)
MaxHostLen == 1    \* longest list a host search returns (symbol_at_point)
MaxSymLen == 3     \* longest symbol text under the cursor
MaxLines == 2      \* most lines above the definition in a scanned file
MaxPast == 2       \* most reads above the first line of the file that are followed
MaxLocs == 2       \* longest filtered location list of a hover
MaxTab == 3        \* most lines handed to the formatter

(* Program constant: len(symbol.strip()) < 3 *)
MinSymbolLen == 3

-----------------------------------------------------------------------------
(* Text helpers: Python's str operations on sequences of characters *)

RECURSIVE SeqsUpTo(_, _)
SeqsUpTo(S, m) ==
    IF m = 0 THEN {<<>>}
    ELSE LET shorter == SeqsUpTo(S, m - 1)
         IN  shorter \cup {Append(s, x) : s \in {t \in shorter : Len(t) = m - 1}, x \in S}

\* s[a:] with 0-based a
From(s, a) == SubSeq(s, a + 1, Len(s))

\* sub occurs in s at 0-based index a
OccursAt(s, sub, a) ==
    /\ a + Len(sub) <= Len(s)
    /\ \A j \in 1..Len(sub) : s[a + j] = sub[j]

\* s.find(sub): lowest 0-based index of sub in s, or -1
Find(s, sub) ==
    LET hits == {a \in 0..Len(s) : OccursAt(s, sub, a)}
    IN  IF hits = {} THEN -1
        ELSE CHOOSE a \in hits : \A b \in hits : a <= b

\* sub in s
Contains(s, sub) == Find(s, sub) # -1

Whitespace == {" "}

\* s.strip()
RECURSIVE LStrip(_)
LStrip(s) ==
    IF s # <<>> /\ Head(s) \in Whitespace THEN LStrip(Tail(s)) ELSE s

RECURSIVE RStrip(_)
RStrip(s) ==
    IF s # <<>> /\ s[Len(s)] \in Whitespace THEN RStrip(SubSeq(s, 1, Len(s) - 1)) ELSE s

Strip(s) == RStrip(LStrip(s))

UpperToLower ==
    [c \in {"P", "A", "R", "M", "E", "T", "U", "N", "D", "S", "C"} |->
        CASE c = "P" -> "p" [] c = "A" -> "a" [] c = "R" -> "r" [] c = "M" -> "m"
          [] c = "E" -> "e" [] c = "T" -> "t" [] c = "U" -> "u" [] c = "N" -> "n"
          [] c = "D" -> "d" [] c = "S" -> "s" [] c = "C" -> "c"]

\* s.lower()
Lower(s) ==
    [j \in 1..Len(s) |-> IF s[j] \in DOMAIN UpperToLower THEN UpperToLower[s[j]] ELSE s[j]]

\* variant: the collected lines are not reversed
ReverseMutant(s) == s

\* list.reverse()
Reverse(s) == [j \in 1..Len(s) |-> s[Len(s) + 1 - j]]

-----------------------------------------------------------------------------
(* Locations: (fname, display_fname, (row, col)) *)

Paths == {"a", "b", "c"}
RowCols == {<<1, 0>>, <<9, 9>>}
Location(fname, rowcol) == <<fname, fname, rowcol>>
Locations == {Location(f, rc) : f \in Paths, rc \in RowCols}

SymbolChars == {" ", "a"}
Symbols == SeqsUpTo(SymbolChars, MaxSymLen)
\* the symbol arguments GotoDefinition.run is given
GivenSymbols == {<<"a", "a">>, <<" ", "a", " ">>, <<"a", "a", "a">>, <<" ", "a", "a", "a", " ">>}

-----------------------------------------------------------------------------
(* lookup_symbol *)

file_in_location_list(fname, locs) ==
    \E j \in 1..Len(locs) : locs[j][1] = fname

\* variant: the length gate without strip()
TooShortMutant(sym) == Len(sym) < MinSymbolLen

\* if len(symbol.strip()) < 3: return []
TooShort(sym) == Len(Strip(sym)) < MinSymbolLen

\* variant: the index entry is kept for an open path
OverrideMutant(l, ofls) == <<l>>

\* for ofl in open_file_locations: if l[0] == ofl[0]: ... append(ofl)
Override(l, ofls) == SelectSeq(ofls, LAMBDA ofl : l[1] = ofl[1])

\* variant: no ofl_ignore test
AlreadyOverriddenMutant(l, ofl_ignore) == FALSE

\* file_in_location_list(l[0], ofl_ignore)
AlreadyOverridden(l, ofl_ignore) == file_in_location_list(l[1], ofl_ignore)

\* for l in index_locations: ...   (acc = [locations, ofl_ignore])
RECURSIVE MergeIndex(_, _, _)
MergeIndex(idx, ofls, acc) ==
    IF idx = <<>> THEN acc
    ELSE LET l == Head(idx)
         IN  IF file_in_location_list(l[1], ofls)
             THEN IF ~AlreadyOverridden(l, acc.ofl_ignore)
                  THEN MergeIndex(Tail(idx), ofls,
                           [locations |-> acc.locations \o Override(l, ofls),
                            ofl_ignore |-> acc.ofl_ignore \o Override(l, ofls)])
                  ELSE MergeIndex(Tail(idx), ofls, acc)
             ELSE MergeIndex(Tail(idx), ofls,
                      [locations |-> Append(acc.locations, l),
                       ofl_ignore |-> acc.ofl_ignore])

\* the whole merge: the index pass, then the open files not yet emitted
Merge(idx, ofls) ==
    LET acc == MergeIndex(idx, ofls, [locations |-> <<>>, ofl_ignore |-> <<>>])
    IN  acc.locations \o
        SelectSeq(ofls, LAMBDA ofl : ~file_in_location_list(ofl[1], acc.ofl_ignore))

HostCall(fn, sym) == [fn |-> fn, symbol |-> sym]

\* lookup_symbol(window, symbol), the host answering idx and ofls when asked
lookup_symbol(sym, idx, ofls) ==
    IF TooShort(sym)
    THEN [locations |-> <<>>, calls |-> <<>>]
    ELSE [locations |-> Merge(idx, ofls),
          calls |-> <<HostCall("lookup_symbol_in_index", sym),
                      HostCall("lookup_symbol_in_open_files", sym)>>]

-----------------------------------------------------------------------------
(* Idle values of the parts a specification does not exercise *)

NoFile == [open |-> FALSE, lines |-> <<>>]
OpenFile(lines) == [open |-> TRUE, lines |-> lines]
NoView == "NoView"
NoLoc == <<>>
EmptyFmt ==
    [inputParam |-> <<>>, outputParam |-> <<>>, description |-> <<>>,
     other |-> <<>>, last |-> ""]

LookupIdle ==
    /\ symbol = <<>>
    /\ index_locations = <<>>
    /\ open_file_locations = <<>>
    /\ locations = <<>>
    /\ calls = <<>>
    /\ lookups = <<>>

HoverIdle ==
    /\ files = [p \in Paths |-> NoFile]
    /\ view = NoView
    /\ loc = NoLoc
    /\ k = 0
    /\ i = 0
    /\ htmlTab = <<>>
    /\ comment = <<>>
    /\ fault = "none"

FormatIdle ==
    /\ textTab = <<>>
    /\ n = 0
    /\ fmt = EmptyFmt
    /\ html = <<>>

-----------------------------------------------------------------------------
(* GotoDefinition.run(symbol) and symbol_at_point *)

Lookup(range, sym, locs) == [range |-> range, symbol |-> sym, locations |-> locs]

\* the answers the index search and the open-files search may give
HostAnswers(m) == SeqsUpTo(Locations, m)

\* one call of lookup_symbol from the handler at range `range`; next position `next`
CallLookupSymbol(range, sym, idx, ofls, next) ==
    LET r == lookup_symbol(sym, idx, ofls)
    IN  /\ symbol' = sym
        /\ index_locations' = idx
        /\ open_file_locations' = ofls
        /\ locations' = r.locations
        /\ calls' = calls \o r.calls
        /\ lookups' = Append(lookups, Lookup(range, sym, r.locations))
        /\ pc' = next

\* the host is asked only past the length gate; otherwise its answers are not read
AskHost(range, sym, m, next) ==
    IF TooShort(sym)
    THEN CallLookupSymbol(range, sym, <<>>, <<>>, next)
    ELSE \E idx \in HostAnswers(m), ofls \in HostAnswers(m) :
             CallLookupSymbol(range, sym, idx, ofls, next)

\* GotoDefinition.run with a symbol argument: locations = lookup_symbol(window, symbol)
GotoDefinitionRun ==
    /\ pc = "run"
    /\ \E sym \in GivenSymbols : AskHost("given", sym, MaxLen, "navigate")
    /\ UNCHANGED <<hoverVars, formatVars>>

\* symbol_at_point, first lookup: the expanded-range symbol
SymbolAtPointExpanded ==
    /\ pc = "symbol_at_point"
    /\ \E sym \in Symbols : AskHost("expanded", sym, MaxHostLen, "looked")
    /\ UNCHANGED <<hoverVars, formatVars>>

\* variant: the fallback also taken on a single location
NeedsFallbackMutant(locs) == Len(locs) <= 1

\* if len(locations) == 0:
NeedsFallback(locs) == Len(locs) = 0

\* symbol_at_point, second lookup: the word-range symbol
SymbolAtPointWord ==
    /\ pc = "looked"
    /\ NeedsFallback(locations)
    /\ \E sym \in Symbols : AskHost("word", sym, MaxHostLen, "returned")
    /\ UNCHANGED <<hoverVars, formatVars>>

\* return symbol, locations
SymbolAtPointReturn ==
    /\ pc = "looked"
    /\ ~NeedsFallback(locations)
    /\ pc' = "returned"
    /\ UNCHANGED <<symbol, index_locations, open_file_locations, locations, calls, lookups>>
    /\ UNCHANGED <<hoverVars, formatVars>>

InitMerge == pc = "run" /\ LookupIdle /\ HoverIdle /\ FormatIdle
NextMerge == GotoDefinitionRun
SpecMerge == InitMerge /\ [][NextMerge]_vars

InitResolve == pc = "symbol_at_point" /\ LookupIdle /\ HoverIdle /\ FormatIdle
NextResolve == SymbolAtPointExpanded \/ SymbolAtPointWord \/ SymbolAtPointReturn
SpecResolve == InitResolve /\ [][NextResolve]_vars

-----------------------------------------------------------------------------
(* miseEnForme, htmlList, htmlText *)

AtParam == <<"@", "p", "a", "r", "a", "m">>
AtReturn == <<"@", "r", "e", "t", "u", "r", "n">>
AtDesc == <<"@", "d", "e", "s", "c">>
At == <<"@">>
\* "<p style='margin-left : 10px;'>" + ligne + "</p>"
Indented(ligne) == <<"<p style='margin-left : 10px;'>">> \o ligne \o <<"</p>">>

\* variant: a continuation line opens a new entry
ContinueEntryMutant(entries, ligne) == Append(entries, Indented(ligne))

\* inputParam[lastIndex] = inputParam[lastIndex] + temp  (Python's index -1 is
\* the last element of a non-empty list and an IndexError on an empty one)
ContinueEntry(entries, ligne) ==
    [entries EXCEPT ![Len(entries)] = @ \o Indented(ligne)]

\* the body of "for ligne in textTab"
FmtLine(f, ligne) ==
    IF Contains(Lower(ligne), AtParam)
    THEN [f EXCEPT !.inputParam = Append(@, From(ligne, Find(Lower(ligne), AtParam) + 6)),
                   !.last = "@param"]
    ELSE IF Contains(Lower(ligne), AtReturn)
    THEN [f EXCEPT !.outputParam = Append(@, From(ligne, Find(Lower(ligne), AtReturn) + 7)),
                   !.last = "@return"]
    ELSE IF Contains(Lower(ligne), AtDesc)
    THEN [f EXCEPT !.description = Append(@, From(ligne, Find(Lower(ligne), AtDesc) + 5)),
                   !.last = "@desc"]
    ELSE IF Contains(ligne, At)
    THEN [f EXCEPT !.other = Append(@, ligne), !.last = ""]
    ELSE IF f.last = "@param"
    THEN [f EXCEPT !.inputParam = ContinueEntry(@, ligne)]
    ELSE IF f.last = "@return"
    THEN [f EXCEPT !.outputParam = ContinueEntry(@, ligne)]
    ELSE IF f.last = "@desc"
    THEN [f EXCEPT !.description = Append(@, ligne)]
    ELSE [f EXCEPT !.other = Append(@, ligne), !.last = ""]

RECURSIVE htmlListItems(_)
htmlListItems(liste) ==
    IF liste = <<>> THEN <<>>
    ELSE <<"<li>">> \o Head(liste) \o <<"</li>">> \o htmlListItems(Tail(liste))

htmlList(liste) == <<"<ul>">> \o htmlListItems(liste) \o <<"</ul>">>

RECURSIVE htmlText(_)
htmlText(liste) ==
    IF liste = <<>> THEN <<>>
    ELSE <<"<p>">> \o Head(liste) \o <<"</p>">> \o htmlText(Tail(liste))

\* the four "if len(...)" blocks that build html (headings written without
\* their accents)
Render(f) ==
    (IF Len(f.description) # 0
     THEN <<"<p>Description</p>", "<ul>">> \o htmlText(f.description) \o <<"</ul>">>
     ELSE <<>>)
    \o (IF Len(f.inputParam) # 0
        THEN (IF Len(f.inputParam) = 1
              THEN <<"<p>Parametre d'entree :</p>">>
              ELSE <<"<p>Parametres d'entrees :</p>">>) \o htmlList(f.inputParam)
        ELSE <<>>)
    \o (IF Len(f.outputParam) # 0
        THEN (IF Len(f.outputParam) = 1
              THEN <<"<p>Parametre de sortie :</p>">>
              ELSE <<"<p>Parametres de sorties :</p>">>) \o htmlList(f.outputParam)
        ELSE <<>>)
    \o (IF Len(f.other) # 0 THEN htmlText(f.other) ELSE <<>>)

RECURSIVE FmtLines(_, _)
FmtLines(f, lignes) ==
    IF lignes = <<>> THEN f ELSE FmtLines(FmtLine(f, Head(lignes)), Tail(lignes))

\* miseEnForme(textTab) as one call
miseEnForme(lignes) == Render(FmtLines(EmptyFmt, lignes))

\* lines handed to the formatter
TabLines ==
    { <<"@", "p", "a", "r", "a", "m", " ", "x">>,
      <<" ", "@", "P", "a", "r", "a", "m">>,
      <<" ", "m">>,
      <<>>,
      <<"@", "r", "e", "t", "u", "r", "n", " ", "y">>,
      <<"@", "d", "e", "s", "c", " ", "d">>,
      <<"@", "s", "e", "e">> }

\* one iteration of "for ligne in textTab"
FormatLine ==
    /\ pc = "miseEnForme"
    /\ n < Len(textTab)
    /\ fmt' = FmtLine(fmt, textTab[n + 1])
    /\ n' = n + 1
    /\ UNCHANGED <<pc, textTab, html>>
    /\ UNCHANGED <<symbol, index_locations, open_file_locations, locations, calls, lookups>>
    /\ UNCHANGED hoverVars

\* the rendering after the loop, and the return
FormatRender ==
    /\ pc = "miseEnForme"
    /\ n = Len(textTab)
    /\ html' = Render(fmt)
    /\ pc' = "formatted"
    /\ UNCHANGED <<textTab, n, fmt>>
    /\ UNCHANGED <<symbol, index_locations, open_file_locations, locations, calls, lookups>>
    /\ UNCHANGED hoverVars

InitFormat ==
    /\ pc = "miseEnForme"
    /\ textTab \in SeqsUpTo(TabLines, MaxTab)
    /\ n = 0
    /\ fmt = EmptyFmt
    /\ html = <<>>
    /\ LookupIdle
    /\ HoverIdle
NextFormat == FormatLine \/ FormatRender
SpecFormat == InitFormat /\ [][NextFormat]_vars

-----------------------------------------------------------------------------
(* extractInfo: the upward scan of the comment lines above a definition *)

Hash == <<"#">>
EndFunction == <<"E", "N", "D", " ", "F", "U", "N", "C", "T", "I", "O", "N">>
Function == <<"F", "U", "N", "C", "T", "I", "O", "N">>
Hashes6 == <<"#", "#", "#", "#", "#", "#">>
Equals6 == <<"=", "=", "=", "=", "=", "=">>
Dashes5 == <<"-", "-", "-", "-", "-">>
Diamonds == <<"<", ">", "<", ">", "<">>

\* variant: no test for a run of six hashes
IsDividerMutant(temp) ==
    \/ Contains(temp, Equals6)
    \/ Contains(temp, Dashes5)
    \/ Contains(temp, Diamonds)

\* the four "continue" tests of a marker line
IsDivider(temp) ==
    \/ Contains(temp, Hashes6)
    \/ Contains(temp, Equals6)
    \/ Contains(temp, Dashes5)
    \/ Contains(temp, Diamonds)

\* the body of "while cont" once temp is read; st = [cont, i, htmlTab]
ScanLine(temp, st) ==
    LET pos == Find(temp, Hash)
    IN  IF Contains(temp, EndFunction)
        THEN [st EXCEPT !.cont = FALSE]
        ELSE IF pos # -1
        THEN IF IsDivider(temp)
             THEN [st EXCEPT !.i = @ + 1]
             ELSE [st EXCEPT !.i = @ + 1, !.htmlTab = Append(@, From(temp, pos + 1))]
        ELSE IF Len(temp) = 0
        THEN [st EXCEPT !.i = @ + 1]
        ELSE IF Contains(temp, Function)
        THEN [st EXCEPT !.i = @ + 1]
        ELSE [st EXCEPT !.cont = FALSE]

\* window.find_open_file(path): the view of an open file, or None
find_open_file(path) == IF files[path].open THEN path ELSE NoView

\* the 0-based row handed to view.text_point: l[2][0] - 1 - i
ScanRow == loc[3][1] - 1 - i

\* view.substr(view.line(view.text_point(row, col))) for a row of the file,
\* the column lying within that row
LineAt(v, row) == files[v].lines[row + 1]

HoverView == "HoverView"
lookupLocals == <<symbol, index_locations, open_file_locations, calls, lookups>>

\* one iteration of "for l in locations": view = view.window().find_open_file(l[0])
ExtractFind ==
    /\ pc = "extractInfo"
    /\ k < Len(locations)
    /\ view # NoView
    /\ loc' = locations[k + 1]
    /\ view' = find_open_file(locations[k + 1][1])
    /\ k' = k + 1
    /\ UNCHANGED <<pc, locations, files, i, htmlTab, comment, fault>>
    /\ UNCHANGED <<lookupLocals, formatVars>>

\* the same iteration when the previous one left view = None: view.window() raises
ExtractFindNoView ==
    /\ pc = "extractInfo"
    /\ k < Len(locations)
    /\ view = NoView
    /\ loc' = locations[k + 1]
    /\ fault' = "AttributeError"
    /\ pc' = "fault"
    /\ UNCHANGED <<locations, files, view, k, i, htmlTab, comment>>
    /\ UNCHANGED <<lookupLocals, formatVars>>

\* cont = True; i = 1
ExtractScanStart ==
    /\ pc = "extractInfo"
    /\ k = Len(locations)
    /\ i' = 1
    /\ pc' = "scan"
    /\ UNCHANGED <<locations, files, view, loc, k, htmlTab, comment, fault>>
    /\ UNCHANGED <<lookupLocals, formatVars>>

\* the scan step once temp is read
ScanWith(temp) ==
    LET st == ScanLine(temp, [cont |-> TRUE, i |-> i, htmlTab |-> htmlTab])
    IN  /\ i' = st.i
        /\ htmlTab' = st.htmlTab
        /\ pc' = IF st.cont THEN "scan" ELSE "collected"
        /\ UNCHANGED <<locations, files, view, loc, k, comment, fault>>
        /\ UNCHANGED <<lookupLocals, formatVars>>

\* one iteration of "while cont" on a row of the file
ScanRead ==
    /\ pc = "scan"
    /\ view # NoView
    /\ ScanRow >= 0
    /\ ScanWith(LineAt(view, ScanRow))

\* one iteration with view = None (the last location's file is not open):
\* view.substr raises
ScanNoView ==
    /\ pc = "scan"
    /\ view = NoView
    /\ fault' = "AttributeError"
    /\ pc' = "fault"
    /\ UNCHANGED <<locations, files, view, loc, k, i, htmlTab, comment>>
    /\ UNCHANGED <<lookupLocals, formatVars>>

\* one iteration on a negative row: the code hands the row to the host as it
\* is; the host may answer with an empty line or with its first line
ScanPastTop ==
    /\ pc = "scan"
    /\ view # NoView
    /\ ScanRow < 0
    /\ ScanRow >= -MaxPast
    /\ \E temp \in {<<>>, LineAt(view, 0)} : ScanWith(temp)

\* one iteration on a negative row that the host refuses
ScanPastTopError ==
    /\ pc = "scan"
    /\ view # NoView
    /\ ScanRow < 0
    /\ ScanRow >= -MaxPast
    /\ fault' = "HostError"
    /\ pc' = "fault"
    /\ UNCHANGED <<locations, files, view, loc, k, i, htmlTab, comment>>
    /\ UNCHANGED <<lookupLocals, formatVars>>

\* htmlTab.reverse(); return html + miseEnForme(htmlTab); on_hover shows the popup
ExtractReturn ==
    /\ pc = "collected"
    /\ htmlTab' = Reverse(htmlTab)
    /\ comment' = miseEnForme(Reverse(htmlTab))
    /\ pc' = "popup"
    /\ UNCHANGED <<locations, files, view, loc, k, i, fault>>
    /\ UNCHANGED <<lookupLocals, formatVars>>

HashLine(m) == [j \in 1..m |-> "#"]
DefLine == <<"d", "e", "f", " ", "f">>
CodeLine == <<"x", "=", "1">>
ParamLine == <<"#", "@", "p", "a", "r", "a", "m", " ", "x">>
MoreLine == <<"#", " ", "m">>
DescLine == <<"#", "@", "d", "e", "s", "c", " ", "d">>
ReturnLine == <<"#", "@", "r", "e", "t", "u", "r", "n", " ", "y">>

\* lines a file may hold above the definition
ScanLines ==
    { <<>>, HashLine(1), HashLine(5), HashLine(6), HashLine(7),
      Hash \o Equals6, Hash \o Dashes5, Hash \o Diamonds,
      ParamLine, MoreLine, CodeLine,
      EndFunction, Hash \o EndFunction, Function \o <<" ", "f">>,
      <<"a", "#", "b">>, Equals6 }

\* the open files of a hover over several definitions
Library ==
    [p \in Paths |->
        CASE p = "a" -> <<CodeLine, DescLine, DefLine>>
          [] p = "b" -> <<EndFunction, ParamLine, MoreLine, DefLine>>
          [] p = "c" -> <<ReturnLine, DefLine>>]
HoverLocs == {Location(p, <<Len(Library[p]), 0>>) : p \in Paths}

\* one open file with any lines above the definition, hovered at its definition
InitOneFile ==
    \E above \in SeqsUpTo(ScanLines, MaxLines) :
        /\ files = [p \in Paths |-> IF p = "a" THEN OpenFile(above \o <<DefLine>>) ELSE NoFile]
        /\ locations = <<Location("a", <<Len(above) + 1, 0>>)>>

\* several definitions, each file open or not
InitLibrary ==
    /\ \E open \in SUBSET Paths :
           files = [p \in Paths |-> IF p \in open THEN OpenFile(Library[p]) ELSE NoFile]
    /\ locations \in SeqsUpTo(HoverLocs, MaxLocs) \ {<<>>}

\* on_hover at "comment = extractInfo(view, locations)", locations not empty
InitExtract ==
    /\ pc = "extractInfo"
    /\ InitOneFile \/ InitLibrary
    /\ view = HoverView
    /\ loc = NoLoc
    /\ k = 0
    /\ i = 0
    /\ htmlTab = <<>>
    /\ comment = <<>>
    /\ fault = "none"
    /\ symbol = <<>>
    /\ index_locations = <<>>
    /\ open_file_locations = <<>>
    /\ calls = <<>>
    /\ lookups = <<>>
    /\ FormatIdle
NextExtract ==
    \/ ExtractFind
    \/ ExtractFindNoView
    \/ ExtractScanStart
    \/ ScanRead
    \/ ScanNoView
    \/ ScanPastTop
    \/ ScanPastTopError
    \/ ExtractReturn
SpecExtract == InitExtract /\ [][NextExtract]_vars

-----------------------------------------------------------------------------
(* Properties of the merge (SpecMerge) *)

PathsOf(locs) == {locs[j][1] : j \in 1..Len(locs)}
NoPathTwice(locs) == \A x, y \in 1..Len(locs) : locs[x][1] = locs[y][1] => x = y
Count(e, locs) == Cardinality({j \in 1..Len(locs) : locs[j] = e})
Merged == pc = "navigate" /\ calls # <<>>

\* the open-file entry for a path that occurs once in ofls
EntryFor(fname, ofls) == CHOOSE ofl \in {ofls[j] : j \in 1..Len(ofls)} : ofl[1] = fname

ExpectedMerge(idx, ofls) ==
    [j \in 1..Len(idx) |->
        IF idx[j][1] \in PathsOf(ofls) THEN EntryFor(idx[j][1], ofls) ELSE idx[j]]
    \o SelectSeq(ofls, LAMBDA ofl : ofl[1] \notin PathsOf(idx))

\* C1: when no path occurs twice within the index list or within the
\* open-file list, the merged list is the index list in its own order with
\* every entry whose path is open replaced in place by the open-file entry,
\* followed by the open-file entries whose path the index lacks, in their order.
C1_MergeOrder ==
    (Merged /\ NoPathTwice(index_locations) /\ NoPathTwice(open_file_locations))
        => locations = ExpectedMerge(index_locations, open_file_locations)

\* C1 witness: the example I=[a@(1,0), b@(1,0)], O=[b@(9,9), c@(1,0)]
C1_Witness ==
    /\ Merged
    /\ index_locations = <<Location("a", <<1, 0>>), Location("b", <<1, 0>>)>>
    /\ open_file_locations = <<Location("b", <<9, 9>>), Location("c", <<1, 0>>)>>
    /\ locations = <<Location("a", <<1, 0>>), Location("b", <<9, 9>>), Location("c", <<1, 0>>)>>

\* C2: for any two lists, repeated paths included, the merged list holds each
\* entry as often as the open-file list holds it plus, when its path is not
\* open, as often as the index list holds it; so its length is the length of
\* the open-file list plus the number of index entries whose path is not open.
C2_NoneLostNoneTwice ==
    Merged =>
        /\ \A e \in Locations :
               Count(e, locations) =
                   Count(e, open_file_locations)
                   + (IF e[1] \in PathsOf(open_file_locations) THEN 0
                      ELSE Count(e, index_locations))
        /\ Len(locations) =
               Len(open_file_locations)
               + Cardinality({j \in 1..Len(index_locations) :
                                 index_locations[j][1] \notin PathsOf(open_file_locations)})

\* C2 witness: the index repeats a path that the open files hold twice
C2_Witness ==
    /\ Merged
    /\ Len(index_locations) = 2
    /\ index_locations[1][1] = index_locations[2][1]
    /\ Len(open_file_locations) = 2
    /\ open_file_locations[1] # open_file_locations[2]
    /\ PathsOf(open_file_locations) = PathsOf(index_locations)
    /\ locations = open_file_locations

-----------------------------------------------------------------------------
(* Properties of symbol_at_point (SpecResolve) *)

\* length of sym between its first and last non-whitespace character
TrimmedLen(sym) ==
    LET solid == {j \in 1..Len(sym) : sym[j] # " "}
    IN  IF solid = {} THEN 0
        ELSE (CHOOSE hi \in solid : \A j \in solid : j <= hi)
             - (CHOOSE lo \in solid : \A j \in solid : lo <= j) + 1

RECURSIVE ExpectedCalls(_)
ExpectedCalls(lks) ==
    IF lks = <<>> THEN <<>>
    ELSE (IF TrimmedLen(Head(lks).symbol) < 3 THEN <<>>
          ELSE <<HostCall("lookup_symbol_in_index", Head(lks).symbol),
                 HostCall("lookup_symbol_in_open_files", Head(lks).symbol)>>)
         \o ExpectedCalls(Tail(lks))

\* C3: a lookup of a symbol whose trimmed length is below 3 returns no
\* location and asks neither host search; a lookup of a symbol of trimmed
\* length 3 or more asks the index search and the open-files search.
C3_LengthGate ==
    /\ \A j \in 1..Len(lookups) :
           TrimmedLen(lookups[j].symbol) < 3 => lookups[j].locations = <<>>
    /\ calls = ExpectedCalls(lookups)

\* C3 witness: " a " was looked up without a search, then "aaa" with both
C3_Witness ==
    /\ pc = "returned"
    /\ Len(lookups) = 2
    /\ lookups[1].symbol = <<" ", "a", " ">>
    /\ lookups[2].symbol = <<"a", "a", "a">>
    /\ Len(calls) = 2

\* C4: symbol_at_point looks the word-range symbol up exactly when the lookup
\* of the expanded-range symbol gave no location; otherwise it returns the
\* expanded-range symbol with the locations of that lookup.
C4_FallbackOnlyOnEmpty ==
    pc = "returned" =>
        /\ Len(lookups) \in {1, 2}
        /\ lookups[1].range = "expanded"
        /\ (Len(lookups) = 2) <=> (lookups[1].locations = <<>>)
        /\ Len(lookups) = 2 => lookups[2].range = "word"
        /\ symbol = lookups[Len(lookups)].symbol
        /\ locations = lookups[Len(lookups)].locations

\* C4 witness: the expanded-range lookup asked the host and got nothing, and
\* the word-range lookup found a location
C4_Witness ==
    /\ pc = "returned"
    /\ Len(lookups) = 2
    /\ TrimmedLen(lookups[1].symbol) >= 3
    /\ lookups[2].locations # <<>>

-----------------------------------------------------------------------------
(* Properties of the formatter (SpecFormat) *)

\* tag occurs in ligne, letters compared without case
HasTag(ligne, tag) ==
    \E a \in 0..Len(ligne) :
        /\ a + Len(tag) <= Len(ligne)
        /\ \A j \in 1..Len(tag) :
               \/ ligne[a + j] = tag[j]
               \/ /\ ligne[a + j] \in DOMAIN UpperToLower
                  /\ UpperToLower[ligne[a + j]] = tag[j]

ParamLines(m) == {j \in 1..m : HasTag(textTab[j], AtParam)}
ReturnLines(m) ==
    {j \in 1..m : ~HasTag(textTab[j], AtParam) /\ HasTag(textTab[j], AtReturn)}
Tokens(out, tok) == Cardinality({j \in 1..Len(out) : out[j] = tok})
EndsWith(s, t) == Len(t) <= Len(s) /\ SubSeq(s, Len(s) - Len(t) + 1, Len(s)) = t

\* C8: a line without '@' that follows a @param (or @return) entry is
\* concatenated onto the latest input (or output) entry and makes no new one:
\* the input entries are as many as the lines classified @param, the output
\* entries as many as the lines classified @return, the rendered list items as
\* many as both together, and the entry list continued is never empty.
C8_TagContinuation ==
    /\ Len(fmt.inputParam) = Cardinality(ParamLines(n))
    /\ Len(fmt.outputParam) = Cardinality(ReturnLines(n))
    /\ fmt.last = "@param" => Len(fmt.inputParam) >= 1
    /\ fmt.last = "@return" => Len(fmt.outputParam) >= 1
    /\ (n >= 1 /\ fmt.last = "@param" /\ ~HasTag(textTab[n], At))
           => EndsWith(fmt.inputParam[Len(fmt.inputParam)], Indented(textTab[n]))
    /\ (n >= 1 /\ fmt.last = "@return" /\ ~HasTag(textTab[n], At))
           => EndsWith(fmt.outputParam[Len(fmt.outputParam)], Indented(textTab[n]))
    /\ pc = "formatted" =>
           /\ Tokens(html, "<li>") =
                  Cardinality(ParamLines(Len(textTab))) + Cardinality(ReturnLines(Len(textTab)))
           /\ Tokens(htmlList(fmt.inputParam), "<li>") = Cardinality(ParamLines(Len(textTab)))
           /\ Tokens(htmlList(fmt.outputParam), "<li>") = Cardinality(ReturnLines(Len(textTab)))

\* C8 witness: ["@param x", " m"] rendered as one list item holding both
C8_Witness ==
    /\ pc = "formatted"
    /\ textTab = << <<"@", "p", "a", "r", "a", "m", " ", "x">>, <<" ", "m">> >>
    /\ html = <<"<p>Parametre d'entree :</p>", "<ul>", "<li>", " ", "x",
                "<p style='margin-left : 10px;'>", " ", "m", "</p>", "</li>", "</ul>">>

-----------------------------------------------------------------------------
(* Properties of the extractor (SpecExtract) *)

\* the line about to be read is a row of the open file
InFile == pc = "scan" /\ view # NoView /\ ScanRow >= 0
CurLine == LineAt(view, ScanRow)
HasSub(ligne, sub) ==
    \E a \in 0..Len(ligne) :
        a + Len(sub) <= Len(ligne) /\ SubSeq(ligne, a + 1, a + Len(sub)) = sub
OnlyHashes(ligne) == Len(ligne) >= 1 /\ \A j \in 1..Len(ligne) : ligne[j] = "#"
\* a marker line showing one of the other divider patterns
OtherDivider(ligne) ==
    /\ HasSub(ligne, Hash)
    /\ ~HasSub(ligne, EndFunction)
    /\ HasSub(ligne, Equals6) \/ HasSub(ligne, Dashes5) \/ HasSub(ligne, Diamonds)
\* the step leaves the line out and goes on to the line above
Skipped == htmlTab' = htmlTab /\ i' = i + 1 /\ pc' = "scan"

\* C5 as stated: a scanned line made only of '#', of any length from one up,
\* and a marker line with another divider pattern, is left out of the
\* collected lines and the scan goes on to the line above.
C5_AnyHashRunSkipped ==
    [][(InFile /\ (OnlyHashes(CurLine) \/ OtherDivider(CurLine))) => Skipped]_vars

\* C5 amended: a scanned line made only of six or more '#', and a marker line
\* without "END FUNCTION" that contains "======", "-----" or "<><><", is left
\* out of the collected lines and the scan goes on to the line above.
C5_LongHashRunSkipped ==
    [][(InFile /\ ((OnlyHashes(CurLine) /\ Len(CurLine) >= 6) \/ OtherDivider(CurLine)))
          => Skipped]_vars

\* C5 witness: a line of six '#' below a doc line was read and left out, and
\* the scan is about to read the doc line
C5_Witness ==
    /\ pc = "scan"
    /\ files["a"].lines = <<ParamLine, HashLine(6), DefLine>>
    /\ i = 2
    /\ htmlTab = <<>>

\* no marker, not empty, no FUNCTION keyword; or the END FUNCTION sentinel
Halting(ligne) ==
    \/ HasSub(ligne, EndFunction)
    \/ Len(ligne) > 0 /\ ~HasSub(ligne, Hash) /\ ~HasSub(ligne, Function)
\* a marker line whose text is collected
DocLine(ligne) ==
    /\ HasSub(ligne, Hash)
    /\ ~(HasSub(ligne, Hashes6) \/ HasSub(ligne, Equals6)
         \/ HasSub(ligne, Dashes5) \/ HasSub(ligne, Diamonds))
AfterMarker(ligne) ==
    LET a == CHOOSE a \in 1..Len(ligne) :
                 ligne[a] = "#" /\ \A b \in 1..(a - 1) : ligne[b] # "#"
    IN  SubSeq(ligne, a + 1, Len(ligne))
\* the first halting line met going up from line `row` (1-based), 0 if none
HaltLine(lines, row) ==
    LET hs == {h \in 1..(row - 1) : Halting(lines[h])}
    IN  IF hs = {} THEN 0 ELSE CHOOSE h \in hs : \A g \in hs : g <= h
RECURSIVE DocBetween(_, _, _)
DocBetween(lines, lo, hi) ==
    IF lo > hi THEN <<>>
    ELSE (IF DocLine(lines[lo]) THEN <<AfterMarker(lines[lo])>> ELSE <<>>)
         \o DocBetween(lines, lo + 1, hi)
\* the doc block above line `row`: the collected lines between the halting
\* line and the definition, top to bottom
DocAbove(lines, row) == DocBetween(lines, HaltLine(lines, row) + 1, row - 1)

\* C6: when the scan stops on a row of the file, that row is the first line,
\* going up from above the definition, that contains "END FUNCTION" or is
\* non-empty without '#' and without "FUNCTION"; and what extractInfo hands on
\* is the text after the marker of the non-divider marker lines strictly
\* between that line and the definition, in ascending line order.
C6_StopsAtFirstHaltingLine ==
    /\ (pc \in {"collected", "popup"} /\ ScanRow >= 0)
           => ScanRow + 1 = HaltLine(files[view].lines, loc[3][1])
    /\ pc = "collected"
           => Reverse(htmlTab) = DocAbove(files[view].lines, loc[3][1])
    /\ pc = "popup"
           => htmlTab = DocAbove(files[view].lines, loc[3][1])

\* C6 witness: two doc lines above the definition, below a code line
C6_Witness ==
    /\ pc = "popup"
    /\ files["b"].open
    /\ loc = Location("b", <<4, 0>>)
    /\ ScanRow = 0
    /\ htmlTab = <<From(ParamLine, 1), From(MoreLine, 1)>>

\* C7: a scan that would read above the first line of the file stops there;
\* the row it is about to read is never negative.
C7_StopsAtFileStart == pc = "scan" => ScanRow >= 0

\* C9: the doc block of the popup is the one above the first location of
\* the list.
C9_DocOfFirstLocation ==
    (pc = "popup" /\ files[locations[1][1]].open)
        => comment = miseEnForme(DocAbove(files[locations[1][1]].lines, locations[1][3][1]))

\* C10: a location whose file is not open raises no error.
C10_ClosedFileSkipped ==
    (\E j \in 1..Len(locations) : ~files[locations[j][1]].open)
        => fault # "AttributeError"

=============================================================================
